---- MODULE Spec2Model ----
(***************************************************************************)
(* Hotmart Social Media Generator: the Streamlit front-end (app.py), the   *)
(* configuration tables (config.py) and the generator library the front-   *)
(* end calls (extract_product_info, generate_post and their helpers).      *)
(*                                                                         *)
(* Text that the program converts (platform names, which are lower-cased)  *)
(* is a sequence of one-character strings; text that is only carried       *)
(* around (keys, urls, titles, sentences) is a plain string.  An optional  *)
(* value (Python's None or a value) is a sequence of length 0 or 1.  A     *)
(* Python dict is a sequence of [key, value] records in insertion order.   *)
(***************************************************************************)
EXTENDS Integers, Sequences, FiniteSets, TLC

VARIABLES
    session_state,      \* st.session_state: generated_posts, product_info, generation_complete
    widgets,            \* the widget values of the current script run
    pc,                 \* position of the current script run
    product_info,       \* local product_info of the handler (optional)
    selected_platforms, \* local selected_platforms of the handler
    posts,              \* local posts dict of the handler
    idx,                \* number of completed loop iterations
    post,               \* local post: result of generate_post not yet stored (optional)
    http_gets,          \* the GETs of this run, in order: url and what came back
    api_calls,          \* the completion requests of this run, in order: platform and outcome
    notices,            \* st.error / st.warning / st.success messages of this run
    shown,              \* what the display section rendered (optional dict)
    run_start,          \* history: session_state when the run began
    writer,             \* history: checked boxes and product_info of the run that wrote the session (optional)
    call                \* library harness: the last library call and its result

vars == <<session_state, widgets, pc, product_info, selected_platforms, posts, idx,
          post, http_gets, api_calls, notices, shown, run_start, writer, call>>

appVars == <<session_state, widgets, pc, product_info, selected_platforms, posts, idx,
             post, http_gets, api_calls, notices, shown, run_start, writer>>

----------------------------------------------------------------------------
(* Bounds *)

\* A user who has changed the checkboxes has left those with a position
\* above MaxBox unchecked; the untouched default, every box checked, is
\* always among the selections.
MaxBox == 3

\* At most MaxUpper letters of a platform name handed to specFor are upper-cased.
MaxUpper == 2

----------------------------------------------------------------------------
(* Generic helpers *)

None == <<>>

Some(x) == <<x>>

Min(a, b) == IF a < b THEN a ELSE b

Range(s) == {s[i] : i \in 1..Len(s)}

\* dict.keys() in insertion order
DictKeys(d) == [i \in 1..Len(d) |-> d[i].key]

\* d[k] = v : replaces in place when k is a key, appends otherwise
DictSet(d, k, v) ==
    IF \E i \in 1..Len(d) : d[i].key = k
    THEN [i \in 1..Len(d) |-> IF d[i].key = k THEN [key |-> k, value |-> v] ELSE d[i]]
    ELSE Append(d, [key |-> k, value |-> v])

\* d[k] for a key of d
DictGet(d, k) == d[CHOOSE i \in 1..Len(d) : d[i].key = k].value

ToLower ==
    [c \in {"A","B","C","D","E","F","G","H","I","J","K","L","M",
            "N","O","P","Q","R","S","T","U","V","W","X","Y","Z"} |->
        CASE c = "A" -> "a" [] c = "B" -> "b" [] c = "C" -> "c" [] c = "D" -> "d"
          [] c = "E" -> "e" [] c = "F" -> "f" [] c = "G" -> "g" [] c = "H" -> "h"
          [] c = "I" -> "i" [] c = "J" -> "j" [] c = "K" -> "k" [] c = "L" -> "l"
          [] c = "M" -> "m" [] c = "N" -> "n" [] c = "O" -> "o" [] c = "P" -> "p"
          [] c = "Q" -> "q" [] c = "R" -> "r" [] c = "S" -> "s" [] c = "T" -> "t"
          [] c = "U" -> "u" [] c = "V" -> "v" [] c = "W" -> "w" [] c = "X" -> "x"
          [] c = "Y" -> "y" [] c = "Z" -> "z"]

\* A wrong lower(): only the first letter is lower-cased.
LowerFirstOnly(s) ==
    [i \in 1..Len(s) |-> IF i = 1 /\ s[i] \in DOMAIN ToLower THEN ToLower[s[i]] ELSE s[i]]

\* str.lower()
Lower(s) == [i \in 1..Len(s) |-> IF s[i] \in DOMAIN ToLower THEN ToLower[s[i]] ELSE s[i]]

----------------------------------------------------------------------------
(* config.py *)

facebook == <<"f","a","c","e","b","o","o","k">>

instagram == <<"i","n","s","t","a","g","r","a","m">>

twitter == <<"t","w","i","t","t","e","r">>

linkedin == <<"l","i","n","k","e","d","i","n">>

tiktok == <<"t","i","k","t","o","k">>

PLATFORMS ==
    (facebook :> [enabled |-> TRUE, max_length |-> 2000,
                  style |-> "friendly and engaging, use emojis",
                  format |-> "short paragraphs with strong call-to-action"])
    @@ (instagram :> [enabled |-> TRUE, max_length |-> 2200,
                  style |-> "visual and inspiring, use emojis and hashtags",
                  format |-> "short paragraphs + 10-15 relevant hashtags"])
    @@ (twitter :> [enabled |-> TRUE, max_length |-> 280,
                  style |-> "concise and impactful",
                  format |-> "brief message with 2-3 hashtags"])
    @@ (linkedin :> [enabled |-> TRUE, max_length |-> 3000,
                  style |-> "professional and educational",
                  format |-> "long-form post with clear benefit points"])
    @@ (tiktok :> [enabled |-> TRUE, max_length |-> 2200,
                  style |-> "energetic and trendy",
                  format |-> "video script with strong hook and call-to-action"])

DEFAULT_LANGUAGE == "en"

\* A wrong list: French is missing.
SupportedWithoutFr == <<"en", "ar", "es", "pt">>

SUPPORTED_LANGUAGES == <<"en", "ar", "es", "pt", "fr">>

----------------------------------------------------------------------------
(* The generator library (HotmartSocialMediaGenerator) *)

\* The platform spec table lookup: lower-cased name, facebook when unknown.
specFor(platformName) ==
    IF Lower(platformName) \in DOMAIN PLATFORMS
    THEN PLATFORMS[Lower(platformName)]
    ELSE PLATFORMS[facebook]

\* The instruction sentence of each recognized language code.
LanguageSentence(code) ==
    CASE code = "en" -> "Write the post in English"
      [] code = "ar" -> "Write the post in Arabic"
      [] code = "es" -> "Write the post in Spanish"
      [] code = "pt" -> "Write the post in Portuguese"
      [] code = "fr" -> "Write the post in French"

\* The fixed table of language directives.
LanguageInstructions == [code \in Range(SUPPORTED_LANGUAGES) |-> LanguageSentence(code)]

\* The directive of a language code: English for an unrecognized code.
languageDirective(languageCode) ==
    IF languageCode \in DOMAIN LanguageInstructions
    THEN LanguageInstructions[languageCode]
    ELSE LanguageInstructions[DEFAULT_LANGUAGE]

\* The prompt, as its parts: product fields, platform constraints, the
\* five directive points (the fourth is the language directive) and the
\* closing instruction.
buildPrompt(productInfo, platformSpec, languageCode) ==
    [title       |-> productInfo.title,
     description |-> productInfo.description,
     price       |-> productInfo.price,
     url         |-> productInfo.url,
     max_length  |-> platformSpec.max_length,
     style       |-> platformSpec.style,
     format      |-> platformSpec.format,
     points      |-> <<"Start with a hook in the first line",
                       "Highlight the benefits",
                       "Include an explicit call-to-action",
                       languageDirective(languageCode),
                       "Use emojis strategically">>,
     closing     |-> "Output only the post body, no preamble"]

\* The outcomes of one chat-completion request.
CompletionOutcomes == {"ok", "api_error"}

\* complete(prompt, systemPrompt): the generated text, or an error string
\* embedding the failure detail; never an exception.
complete(prompt, outcome) ==
    IF outcome = "ok"
    THEN [kind |-> "text", detail |-> "", prompt |-> prompt]
    ELSE [kind |-> "error", detail |-> outcome, prompt |-> prompt]

\* generate_post(product_info, platform, language)
generate_post(productInfo, platform, language, outcome) ==
    complete(buildPrompt(productInfo, specFor(platform), language), outcome)

\* An element or meta tag a selector did not find.
Absent == [present |-> FALSE, text |-> ""]

Found(t) == [present |-> TRUE, text |-> t]

\* A wrong order: og:title before h1.
ResolveTitleOgFirst(h1, og_title, title_tag) ==
    IF og_title.present /\ og_title.text # "" THEN og_title.text
    ELSE IF h1.present /\ h1.text # "" THEN h1.text
    ELSE IF title_tag.present /\ title_tag.text # "" THEN title_tag.text
    ELSE ""

\* Title resolution: h1, then og:title, then <title>; first non-empty match.
ResolveTitle(h1, og_title, title_tag) ==
    IF h1.present /\ h1.text # "" THEN h1.text
    ELSE IF og_title.present /\ og_title.text # "" THEN og_title.text
    ELSE IF title_tag.present /\ title_tag.text # "" THEN title_tag.text
    ELSE ""

\* The default ProductInfo of a failed fetch.
FallbackProductInfo(url) ==
    [url |-> url, title |-> "Hotmart Product", description |-> "", price |-> "",
     benefits |-> <<>>]

\* extract_product_info(url), given what the GET produced.
extract_product_info(url, response) ==
    IF response.status # "ok"
    THEN FallbackProductInfo(url)
    ELSE [url         |-> url,
          title       |-> ResolveTitle(response.page.h1, response.page.og_title,
                                       response.page.title_tag),
          description |-> response.page.description,
          price       |-> response.page.price,
          benefits    |-> <<>>]

----------------------------------------------------------------------------
(* app.py: widgets *)

\* The keys of the platforms dict, in the order the checkboxes are created.
PlatformLabels ==
    << <<"F","a","c","e","b","o","o","k">>,
       <<"I","n","s","t","a","g","r","a","m">>,
       <<"T","w","i","t","t","e","r">>,
       <<"L","i","n","k","e","d","I","n">>,
       <<"T","i","k","T","o","k">> >>

\* The options of the language selectbox.
LanguageOptions == <<"en", "ar", "es", "pt", "fr">>

\* The selectbox option the runs of the model pick: the default one.  The
\* other codes are handed to buildPrompt in SpecLib.
LanguagesTried == {LanguageOptions[1]}

\* What a fetched page holds: the three title sources, and the description
\* and price the extractor resolves from it.
Pages ==
    { [h1 |-> Found("Curso Excel"), og_title |-> Found("Excel | Hotmart"),
       title_tag |-> Found("Hotmart"), description |-> "Aprenda Excel",
       price |-> "R$ 197,00"],
      [h1 |-> Absent, og_title |-> Absent, title_tag |-> Absent,
       description |-> "", price |-> ""] }

\* What the extraction GET can produce.
Responses ==
    {[status |-> "ok", page |-> p] : p \in Pages}
    \cup {[status |-> s, page |-> CHOOSE p \in Pages : ~p.h1.present]
            : s \in {"http_error", "network_error"}}

\* The values of the API key field: empty, or a key (typed, or taken from
\* the environment variable GROQ_API_KEY).
ApiKeys == {"", "gsk_key"}

\* The widget values a script run can see.  At most one button is True in
\* a run: a click reruns the script once.  The buttons are generate_button,
\* submit_manual and the Copy button of each rendered post (copy holds the
\* platform of the clicked one).  The text fields a run does not read (the
\* URL unless generate_button, the manual title unless submit_manual) are
\* left empty.
Widgets ==
    { w \in { [groq_api_key |-> k, language |-> l, platforms |-> c, hotmart_url |-> u,
       manual_title |-> t, manual_description |-> "", manual_price |-> "",
       manual_url |-> "", button |-> b, copy |-> cp] :
        k \in ApiKeys,
        l \in LanguagesTried,
        c \in SUBSET (1..Min(MaxBox, Len(PlatformLabels)))
                \cup {1..Len(PlatformLabels)},
        u \in {"", "https://hotmart.com/product/x"},
        t \in {"", "Curso Manual"},
        b \in {"none", "generate_button", "submit_manual", "copy"},
        cp \in {None} \cup {Some(Lower(PlatformLabels[i])) : i \in 1..Len(PlatformLabels)} } :
      /\ w.button = "copy" <=> w.copy # None
      /\ w.button # "generate_button" => w.hotmart_url = ""
      /\ w.button # "submit_manual" => w.manual_title = "" }

\* The widget values of a fresh session: the key field holds the
\* environment's GROQ_API_KEY ('' when unset), the selectbox its first
\* option, every platform checkbox is checked, the text fields are empty
\* and no button is pressed.
DefaultWidgets(envKey) ==
    [groq_api_key |-> envKey, language |-> LanguageOptions[1],
     platforms |-> 1..Len(PlatformLabels),
     hotmart_url |-> "", manual_title |-> "", manual_description |-> "",
     manual_price |-> "", manual_url |-> "", button |-> "none", copy |-> None]

\* The positions of the checked boxes, in platforms.items() order.
CheckedPositions(checked) ==
    SelectSeq([i \in 1..Len(PlatformLabels) |-> i], LAMBDA i : i \in checked)

\* [p.lower() for p, selected in platforms.items() if selected]
SelectedPlatforms(checked) ==
    [j \in 1..Len(CheckedPositions(checked)) |->
        Lower(PlatformLabels[CheckedPositions(checked)[j]])]

\* Python truthiness of session_state.generated_posts (None and {} are falsy)
Truthy(optDict) == optDict # None /\ Len(optDict[1]) > 0

----------------------------------------------------------------------------
(* app.py: one script run *)

NoCall == [fn |-> "none"]

Init ==
    /\ session_state = [generated_posts |-> None, product_info |-> None,
                        generation_complete |-> FALSE]
    /\ widgets \in {DefaultWidgets(k) : k \in ApiKeys}
    /\ pc = "idle"
    /\ product_info = None
    /\ selected_platforms = <<>>
    /\ posts = <<>>
    /\ idx = 0
    /\ post = None
    /\ http_gets = <<>>
    /\ api_calls = <<>>
    /\ notices = <<>>
    /\ shown = None
    /\ run_start = session_state
    /\ writer = None
    /\ call = NoCall

\* st.error / st.warning / st.success ends this handler: on to the display section
Notify(msg, next) ==
    /\ notices' = Append(notices, msg)
    /\ pc' = next

\* The display section renders the stored posts.
Rendered == session_state.generation_complete /\ Truthy(session_state.generated_posts)

\* The page shows a Copy button for this platform: its post is rendered.
HasCopyButton(platform) ==
    /\ Rendered
    /\ platform \in Range(DictKeys(session_state.generated_posts[1]))

\* A user interaction reruns the script from the top with new widget values.
StartRun ==
    /\ pc = "idle"
    /\ \E w \in Widgets :
        /\ w.button = "copy" => HasCopyButton(w.copy[1])
        /\ widgets' = w
        /\ pc' = IF w.button \in {"none", "copy"} THEN "display" ELSE w.button
    /\ product_info' = None
    /\ selected_platforms' = <<>>
    /\ posts' = <<>>
    /\ idx' = 0
    /\ post' = None
    /\ http_gets' = <<>>
    /\ api_calls' = <<>>
    /\ notices' = <<>>
    /\ shown' = None
    /\ run_start' = session_state
    /\ UNCHANGED <<session_state, writer, call>>

\* if generate_button: the API key and URL checks
GenerateButton ==
    /\ pc = "generate_button"
    /\ IF widgets.groq_api_key = "" THEN Notify("error_api_key", "display")
       ELSE IF widgets.hotmart_url = "" THEN Notify("error_url", "display")
       ELSE pc' = "extract" /\ UNCHANGED notices
    /\ UNCHANGED <<session_state, widgets, product_info, selected_platforms, posts, idx,
                   post, http_gets, api_calls, shown, run_start, writer, call>>

\* generator.extract_product_info(hotmart_url)
ExtractProductInfo ==
    /\ pc = "extract"
    /\ \E response \in Responses :
        /\ product_info' = Some(extract_product_info(widgets.hotmart_url, response))
        /\ http_gets' = Append(http_gets, [url |-> widgets.hotmart_url,
                                           status |-> response.status])
    /\ pc' = "title_check"
    /\ UNCHANGED <<session_state, widgets, selected_platforms, posts, idx, post,
                   api_calls, notices, shown, run_start, writer, call>>

\* A wrong check: the placeholder title counts as a failed extraction.
TitleCheckRejectsPlaceholder ==
    /\ pc = "title_check"
    /\ IF product_info[1].title \in {"", "Hotmart Product"}
       THEN Notify("warning_not_extracted", "display")
       ELSE Notify("success_found_product", "select_platforms")
    /\ UNCHANGED <<session_state, widgets, product_info, selected_platforms, posts, idx,
                   post, http_gets, api_calls, shown, run_start, writer, call>>

\* if not product_info['title']: warning, else success and the product box
TitleCheck ==
    /\ pc = "title_check"
    /\ IF product_info[1].title = ""
       THEN Notify("warning_not_extracted", "display")
       ELSE Notify("success_found_product", "select_platforms")
    /\ UNCHANGED <<session_state, widgets, product_info, selected_platforms, posts, idx,
                   post, http_gets, api_calls, shown, run_start, writer, call>>

\* if submit_manual: the API key and title checks
SubmitManual ==
    /\ pc = "submit_manual"
    /\ IF widgets.groq_api_key = "" THEN Notify("error_api_key", "display")
       ELSE IF widgets.manual_title = "" THEN Notify("error_title_required", "display")
       ELSE pc' = "manual_info" /\ UNCHANGED notices
    /\ UNCHANGED <<session_state, widgets, product_info, selected_platforms, posts, idx,
                   post, http_gets, api_calls, shown, run_start, writer, call>>

\* product_info = {...} from the form fields
ManualInfo ==
    /\ pc = "manual_info"
    /\ product_info' = Some([url         |-> widgets.manual_url,
                             title       |-> widgets.manual_title,
                             description |-> widgets.manual_description,
                             price       |-> widgets.manual_price,
                             benefits    |-> <<>>])
    /\ pc' = "manual_generator"
    /\ UNCHANGED <<session_state, widgets, selected_platforms, posts, idx, post,
                   http_gets, api_calls, notices, shown, run_start, writer, call>>

\* generator = HotmartSocialMediaGenerator(groq_api_key)
ManualGenerator ==
    /\ pc = "manual_generator"
    /\ pc' = "select_platforms"
    /\ UNCHANGED <<session_state, widgets, product_info, selected_platforms, posts, idx,
                   post, http_gets, api_calls, notices, shown, run_start, writer, call>>

\* selected_platforms = [...]; warning when empty, else the loop is set up
SelectPlatforms(flow) ==
    /\ pc = "select_platforms"
    /\ widgets.button = flow
    /\ selected_platforms' = SelectedPlatforms(widgets.platforms)
    /\ IF Len(selected_platforms') = 0
       THEN Notify("warning_no_platform", "display")
       ELSE Notify("progress_started", "generate_post")
    /\ posts' = <<>>
    /\ idx' = 0
    /\ UNCHANGED <<session_state, widgets, product_info, post, http_gets, api_calls,
                   shown, run_start, writer, call>>

\* post = generator.generate_post(product_info, platform, language)
GeneratePost(flow) ==
    /\ pc = "generate_post"
    /\ widgets.button = flow
    /\ \E outcome \in CompletionOutcomes :
        /\ post' = Some(generate_post(product_info[1], selected_platforms[idx + 1],
                                      widgets.language, outcome))
        /\ api_calls' = Append(api_calls, [platform |-> selected_platforms[idx + 1],
                                           outcome |-> outcome])
    /\ pc' = "store_post"
    /\ UNCHANGED <<session_state, widgets, product_info, selected_platforms, posts, idx,
                   http_gets, notices, shown, run_start, writer, call>>

\* A wrong loop: an error result ends the loop early.
StorePostBreakOnError(flow) ==
    /\ pc = "store_post"
    /\ widgets.button = flow
    /\ posts' = DictSet(posts, selected_platforms[idx + 1], post[1])
    /\ idx' = idx + 1
    /\ post' = None
    /\ pc' = IF idx + 1 < Len(selected_platforms) /\ post[1].kind # "error"
             THEN "generate_post" ELSE "write_session"
    /\ UNCHANGED <<session_state, widgets, product_info, selected_platforms, http_gets,
                   api_calls, notices, shown, run_start, writer, call>>

\* A wrong store: an error result is dropped instead of stored.
StorePostSkipsErrors(flow) ==
    /\ pc = "store_post"
    /\ widgets.button = flow
    /\ posts' = IF post[1].kind = "error" THEN posts
               ELSE DictSet(posts, selected_platforms[idx + 1], post[1])
    /\ idx' = idx + 1
    /\ post' = None
    /\ pc' = IF idx + 1 < Len(selected_platforms) THEN "generate_post" ELSE "write_session"
    /\ UNCHANGED <<session_state, widgets, product_info, selected_platforms, http_gets,
                   api_calls, notices, shown, run_start, writer, call>>

\* A wrong store: every stored post is written through to the session at once.
StorePostWritesSession(flow) ==
    /\ pc = "store_post"
    /\ widgets.button = flow
    /\ posts' = DictSet(posts, selected_platforms[idx + 1], post[1])
    /\ session_state' = [session_state EXCEPT !.generated_posts = Some(posts')]
    /\ idx' = idx + 1
    /\ post' = None
    /\ pc' = IF idx + 1 < Len(selected_platforms) THEN "generate_post" ELSE "write_session"
    /\ UNCHANGED <<widgets, product_info, selected_platforms, http_gets,
                   api_calls, notices, shown, run_start, writer, call>>

\* A wrong store: the new entry is put in front of the others.
StorePostInFront(flow) ==
    /\ pc = "store_post"
    /\ widgets.button = flow
    /\ posts' = <<[key |-> selected_platforms[idx + 1], value |-> post[1]]>> \o posts
    /\ idx' = idx + 1
    /\ post' = None
    /\ pc' = IF idx + 1 < Len(selected_platforms) THEN "generate_post" ELSE "write_session"
    /\ UNCHANGED <<session_state, widgets, product_info, selected_platforms, http_gets,
                   api_calls, notices, shown, run_start, writer, call>>

\* posts[platform] = post; progress; next iteration or loop exit
StorePost(flow) ==
    /\ pc = "store_post"
    /\ widgets.button = flow
    /\ posts' = DictSet(posts, selected_platforms[idx + 1], post[1])
    /\ idx' = idx + 1
    /\ post' = None
    /\ pc' = IF idx + 1 < Len(selected_platforms) THEN "generate_post" ELSE "write_session"
    /\ UNCHANGED <<session_state, widgets, product_info, selected_platforms, http_gets,
                   api_calls, notices, shown, run_start, writer, call>>

\* A wrong write: the flag is set but product_info is not stored.
WriteSessionWithoutInfo(flow) ==
    /\ pc = "write_session"
    /\ widgets.button = flow
    /\ session_state' = [session_state EXCEPT !.generated_posts = Some(posts),
                                             !.generation_complete = TRUE]
    /\ writer' = Some([platforms |-> widgets.platforms,
                       product_info |-> product_info[1]])
    /\ Notify("all_generated", "display")
    /\ UNCHANGED <<widgets, product_info, selected_platforms, posts, idx, post,
                   http_gets, api_calls, shown, run_start, call>>

\* the three session_state assignments after the loop
WriteSession(flow) ==
    /\ pc = "write_session"
    /\ widgets.button = flow
    /\ session_state' = [generated_posts |-> Some(posts), product_info |-> product_info,
                         generation_complete |-> TRUE]
    /\ writer' = Some([platforms |-> widgets.platforms,
                       product_info |-> product_info[1]])
    /\ Notify("all_generated", "display")
    /\ UNCHANGED <<widgets, product_info, selected_platforms, posts, idx, post,
                   http_gets, api_calls, shown, run_start, call>>

\* except Exception as e: st.error(...)
HandlerExcept(flow, at) ==
    /\ pc \in at
    /\ widgets.button = flow
    /\ Notify("error_exception", "display")
    /\ UNCHANGED <<session_state, widgets, product_info, selected_platforms, posts, idx,
                   post, http_gets, api_calls, shown, run_start, writer, call>>

\* if generation_complete and generated_posts: render the posts, and
\* st.success for the post whose Copy button was clicked
Display ==
    /\ pc = "display"
    /\ shown' = IF Rendered THEN session_state.generated_posts ELSE None
    /\ notices' = IF widgets.copy # None /\ HasCopyButton(widgets.copy[1])
                  THEN Append(notices, "success_copied") ELSE notices
    /\ pc' = "done"
    /\ UNCHANGED <<session_state, widgets, product_info, selected_platforms, posts, idx,
                   post, http_gets, api_calls, run_start, writer, call>>

\* The script reaches its last line: the run's locals are gone, the session
\* stays.  No script is running until the next interaction, which reads
\* every widget anew (StartRun); until then widgets holds a fresh session's
\* valuation.
EndRun ==
    /\ pc = "done"
    /\ pc' = "idle"
    /\ \E k \in ApiKeys : widgets' = DefaultWidgets(k)
    /\ product_info' = None
    /\ selected_platforms' = <<>>
    /\ posts' = <<>>
    /\ idx' = 0
    /\ post' = None
    /\ http_gets' = <<>>
    /\ api_calls' = <<>>
    /\ notices' = <<>>
    /\ shown' = None
    /\ run_start' = session_state
    /\ UNCHANGED <<session_state, writer, call>>

UrlSelectPlatforms == SelectPlatforms("generate_button")

UrlGeneratePost == GeneratePost("generate_button")

UrlStorePost == StorePost("generate_button")

UrlWriteSession == WriteSession("generate_button")

ManualSelectPlatforms == SelectPlatforms("submit_manual")

ManualGeneratePost == GeneratePost("submit_manual")

ManualStorePost == StorePost("submit_manual")

ManualWriteSession == WriteSession("submit_manual")

\* An exception out of the generator's constructor or extract_product_info
UrlExtractRaises == HandlerExcept("generate_button", {"extract"})

\* An exception out of generate_post, part-way through the loop
UrlGeneratePostRaises == HandlerExcept("generate_button", {"generate_post"})

\* An exception out of the generator's constructor
ManualConstructRaises == HandlerExcept("submit_manual", {"manual_generator"})

\* An exception out of generate_post, part-way through the loop
ManualGeneratePostRaises == HandlerExcept("submit_manual", {"generate_post"})

Next ==
    \/ StartRun
    \/ GenerateButton
    \/ ExtractProductInfo
    \/ TitleCheck
    \/ UrlSelectPlatforms
    \/ UrlGeneratePost
    \/ UrlStorePost
    \/ UrlWriteSession
    \/ SubmitManual
    \/ ManualInfo
    \/ ManualGenerator
    \/ ManualSelectPlatforms
    \/ ManualGeneratePost
    \/ ManualStorePost
    \/ ManualWriteSession
    \/ Display
    \/ EndRun

\* The generator library behaves as specified: its calls return, they never raise.
Spec == Init /\ [][Next]_vars

NextExc ==
    \/ Next
    \/ UrlExtractRaises
    \/ UrlGeneratePostRaises
    \/ ManualConstructRaises
    \/ ManualGeneratePostRaises

\* Any call into the generator library may raise into the handler's except clause.
SpecExc == Init /\ [][NextExc]_vars

----------------------------------------------------------------------------
(* The library functions on their own: every call with inputs from bounded sets *)

ToUpper == [c \in {ToLower[u] : u \in DOMAIN ToLower} |->
               CHOOSE u \in DOMAIN ToLower : ToLower[u] = c]

\* base with the letters at the positions of mask upper-cased
WithUpper(base, mask) ==
    [i \in 1..Len(base) |->
        IF i \in mask /\ base[i] \in DOMAIN ToUpper THEN ToUpper[base[i]] ELSE base[i]]

\* Lower-case platform names handed to specFor: the five of the table, and others.
NameBases ==
    {facebook, instagram, twitter, linkedin, tiktok,
     <<"y","o","u","t","u","b","e">>, <<"f","a","c","e">>, <<"t","w","i","t","t","e","r","2">>,
     <<>>}

\* Language codes handed to buildPrompt: the five of the table, and others.
CodesTried == {"en", "ar", "es", "pt", "fr", "de", "EN", "pt-BR", ""}

\* The values one title source of a page can have.
SourceValues(text) == {Absent, Found(""), Found(text)}

CallSpecFor ==
    /\ \E base \in NameBases, mask \in SUBSET (1..8) :
        /\ Cardinality(mask) <= MaxUpper
        /\ mask \subseteq 1..Len(base)
        /\ call' = [fn |-> "specFor", base |-> base, mask |-> mask,
                    name |-> WithUpper(base, mask),
                    result |-> specFor(WithUpper(base, mask))]
    /\ UNCHANGED appVars

CallResolveTitle ==
    /\ \E h1 \in SourceValues("Curso Excel"), og \in SourceValues("Excel | Hotmart"),
          tt \in SourceValues("Hotmart") :
        call' = [fn |-> "ResolveTitle", h1 |-> h1, og_title |-> og, title_tag |-> tt,
                 result |-> ResolveTitle(h1, og, tt)]
    /\ UNCHANGED appVars

CallBuildPrompt ==
    /\ \E code \in CodesTried, response \in Responses, i \in 1..Len(PlatformLabels) :
        call' = [fn |-> "buildPrompt", code |-> code,
                 result |-> buildPrompt(extract_product_info("https://hotmart.com/product/x",
                                                             response),
                                        specFor(PlatformLabels[i]), code)]
    /\ UNCHANGED appVars

NextLib ==
    \/ CallSpecFor
    \/ CallResolveTitle
    \/ CallBuildPrompt

SpecLib == Init /\ [][NextLib]_vars

----------------------------------------------------------------------------
(* Properties *)

\* The lower-case platform names, in checkbox order.
LowerNames == <<facebook, instagram, twitter, linkedin, tiktok>>

\* The platforms the caller asked for: the lower-case names at the checked positions.
Requested == {LowerNames[i] : i \in widgets.platforms}

RequestedList == [j \in 1..Len(CheckedPositions(widgets.platforms)) |->
                     LowerNames[CheckedPositions(widgets.platforms)[j]]]

\* The per-platform loop of this run has run to its end.
LoopFinished ==
    \/ pc = "write_session"
    \/ pc \in {"display", "done"} /\ "all_generated" \in Range(notices)

RunEnded == pc = "done"

\* The mapping the finished loop hands back.
Returned == IF pc = "write_session" THEN posts ELSE session_state.generated_posts[1]

\* C1: when the per-platform loop finishes, the keys of the returned posts
\* mapping are exactly the requested platforms, whatever completions
\* failed, and a platform whose completion failed has an entry holding the
\* error string.
C1_KeysEqualRequested ==
    LoopFinished =>
        /\ Range(DictKeys(Returned)) = Requested
        /\ Len(Returned) = Cardinality(Requested)
        /\ \A i \in 1..Len(api_calls) :
            api_calls[i].outcome # "ok" =>
                /\ DictGet(Returned, api_calls[i].platform).kind = "error"
                /\ DictGet(Returned, api_calls[i].platform).detail = api_calls[i].outcome

C1_Witness ==
    /\ LoopFinished
    /\ Len(api_calls) >= 2
    /\ api_calls[1].outcome # "ok"
    /\ api_calls[2].outcome = "ok"

PreconditionNotices ==
    {"error_api_key", "error_url", "error_title_required", "warning_no_platform"}

\* C2: a run that ends with a precondition failure (missing API key,
\* missing URL, missing manual title, no platform selected) has issued
\* neither the extraction GET nor any completion request.
C2_NoNetworkBeforeAbort ==
    (RunEnded /\ \E n \in Range(notices) : n \in PreconditionNotices) =>
        Len(http_gets) = 0 /\ Len(api_calls) = 0

\* C3: a failed completion at position i neither ends the loop nor raises:
\* the run that has ended requested a completion for every later position
\* too, ended normally, and stored the error string under the failed
\* platform like any other post.
C3_FailureDoesNotShortCircuit ==
    \A i \in 1..Len(api_calls) :
        api_calls[i].outcome # "ok" =>
            /\ pc \notin {"generate_post", "store_post"} =>
                /\ Len(api_calls) = Len(RequestedList)
                /\ [j \in 1..Len(api_calls) |-> api_calls[j].platform] = RequestedList
            /\ RunEnded =>
                /\ "all_generated" \in Range(notices)
                /\ "error_exception" \notin Range(notices)
                /\ session_state.generated_posts # None
                /\ session_state.generated_posts[1][i].key = RequestedList[i]
                /\ session_state.generated_posts[1][i].value.kind = "error"
                /\ session_state.generated_posts[1][i].value.detail = api_calls[i].outcome

C3_Witness ==
    /\ RunEnded
    /\ Len(api_calls) = 3
    /\ api_calls[1].outcome # "ok"
    /\ api_calls[2].outcome = "ok"
    /\ api_calls[3].outcome # "ok"

\* C4: one completion request per entry of the platform list, in list
\* order; the result of position i is stored before the request of position
\* i+1 is made; results are keyed by the lower-case platform name and the
\* mapping keeps the order of the list.
C4_SequentialOrdered ==
    /\ Len(api_calls) <= Len(RequestedList)
    /\ \A j \in 1..Len(api_calls) : api_calls[j].platform = RequestedList[j]
    /\ Len(posts) <= Len(RequestedList)
    /\ \A j \in 1..Len(posts) : posts[j].key = RequestedList[j]
    /\ pc = "generate_post" => Len(posts) = Len(api_calls)
    /\ pc = "store_post" => Len(posts) + 1 = Len(api_calls)
    /\ LoopFinished =>
        /\ DictKeys(Returned) = RequestedList
        /\ Len(api_calls) = Len(RequestedList)

C4_Witness ==
    /\ LoopFinished
    /\ pc = "done"
    /\ DictKeys(session_state.generated_posts[1]) = <<facebook, twitter>>
    /\ widgets.platforms = {1, 3}

\* C5: when the GET comes back non-2xx or fails in transport, extraction
\* yields the placeholder ProductInfo (title "Hotmart Product", empty
\* description and price, no benefits) without raising, and the caller goes
\* on to generation with it.
C5_ExtractFallsBack ==
    (Len(http_gets) = 1 /\ http_gets[1].status # "ok") =>
        /\ product_info # None
        /\ product_info[1].title = "Hotmart Product"
        /\ product_info[1].description = ""
        /\ product_info[1].price = ""
        /\ product_info[1].benefits = <<>>
        /\ "warning_not_extracted" \notin Range(notices)
        /\ "error_exception" \notin Range(notices)
        /\ (RunEnded /\ widgets.platforms # {}) =>
              /\ Len(api_calls) = Cardinality(widgets.platforms)
              /\ session_state.product_info = product_info

C5_Witness ==
    /\ RunEnded
    /\ Len(http_gets) = 1
    /\ http_gets[1].status = "network_error"
    /\ Len(api_calls) >= 1
    /\ session_state.product_info # None
    /\ session_state.product_info[1].title = "Hotmart Product"

KnownNames == {facebook, instagram, twitter, linkedin, tiktok}

\* C6: specFor always returns a spec of the table; for a name whose
\* lower-case form is one of the five platform names it returns that
\* platform's spec whatever the letter case, and for every other name the
\* facebook spec.
C6_SpecForTotalPermissive ==
    call.fn = "specFor" =>
        /\ \E k \in DOMAIN PLATFORMS : call.result = PLATFORMS[k]
        /\ call.base \in KnownNames => call.result = PLATFORMS[call.base]
        /\ call.base \notin KnownNames => call.result = PLATFORMS[facebook]

C6_Witness ==
    /\ call.fn = "specFor"
    /\ call.name = <<"L","i","n","k","e","d","I","n">>
    /\ call.result.max_length = 3000

\* C7: the resolved title is the text of the first of h1, og:title and
\* <title> that is present and non-empty; with an h1 and an og:title both
\* present and non-empty it is the h1 text.
C7_TitlePriority ==
    call.fn = "ResolveTitle" =>
        LET srcs == <<call.h1, call.og_title, call.title_tag>>
            good == {i \in 1..3 : srcs[i].present /\ srcs[i].text # ""}
        IN  good # {} =>
                call.result = srcs[CHOOSE i \in good : \A j \in good : i <= j].text

C7_Witness ==
    /\ call.fn = "ResolveTitle"
    /\ call.h1 = Found("Curso Excel")
    /\ call.og_title = Found("Excel | Hotmart")
    /\ call.result = "Curso Excel"

AllDirectives == {LanguageSentence(c) : c \in {"en", "ar", "es", "pt", "fr"}}

\* C8: the prompt holds exactly one language directive: that of the code
\* when the code is en, ar, es, pt or fr, the English one for any other code.
C8_LanguageDirective ==
    call.fn = "buildPrompt" =>
        Range(call.result.points) \cap AllDirectives =
            {IF call.code \in {"en", "ar", "es", "pt", "fr"}
             THEN LanguageSentence(call.code) ELSE LanguageSentence("en")}

C8_Witness ==
    /\ call.fn = "buildPrompt"
    /\ call.code = "de"
    /\ "Write the post in English" \in Range(call.result.points)

\* C9: at the end of every run generation_complete is True exactly when
\* generated_posts and product_info are both set, and then generated_posts
\* is a non-empty mapping keyed by the platforms selected in the run that
\* wrote it and product_info is that run's ProductInfo.
C9_SessionConsistent ==
    RunEnded =>
        /\ session_state.generation_complete <=>
              (session_state.generated_posts # None /\ session_state.product_info # None)
        /\ session_state.generation_complete =>
              /\ Len(session_state.generated_posts[1]) > 0
              /\ writer # None
              /\ Range(DictKeys(session_state.generated_posts[1]))
                    = {LowerNames[i] : i \in writer[1].platforms}
              /\ Len(session_state.generated_posts[1]) = Cardinality(writer[1].platforms)
              /\ session_state.product_info[1] = writer[1].product_info

C9_Witness ==
    /\ RunEnded
    /\ session_state.generation_complete
    /\ "error_exception" \in Range(notices)
    /\ writer[1].platforms # widgets.platforms

\* C10: the session is written only after the loop has covered every
\* selected platform; a run that ends any other way leaves the three
\* session variables as they were, the stored mapping is never a partial
\* one, and the posts of an earlier run are still displayed.
C10_SessionWrittenOnlyAfterLoop ==
    /\ ~LoopFinished \/ pc = "write_session" => session_state = run_start
    /\ session_state.generated_posts # None =>
          Len(session_state.generated_posts[1]) = Cardinality(writer[1].platforms)
    /\ (RunEnded /\ ~LoopFinished) =>
          shown = (IF run_start.generation_complete /\ Truthy(run_start.generated_posts)
                   THEN run_start.generated_posts ELSE None)

C10_Witness ==
    /\ RunEnded
    /\ "error_exception" \in Range(notices)
    /\ Len(posts) = 1
    /\ Len(selected_platforms) = 2
    /\ run_start.generation_complete
    /\ Len(run_start.generated_posts[1]) = 3
    /\ shown = run_start.generated_posts

====
